---- MODULE Spec2Model ----
(***************************************************************************)
(* A model of wordle_pycli/wordle.py: the guess evaluation (wordle_guess), *)
(* the keyboard colouring (update_keyboard_state), the game loop and the   *)
(* statistics file (play_wordle, update_stats).                            *)
(*                                                                         *)
(* A string is a sequence of one-character strings.  A coloured letter,    *)
(* "\033[42m" + letter + "\033[0m" in the source, is the pair              *)
(* <<colour, letter>>; a board row is a sequence of coloured letters.      *)
(* A character printed without escape codes has the colour Plain.          *)
(***************************************************************************)
EXTENDS Integers, Sequences, FiniteSets, TLC

VARIABLES
    pc,                 \* position of the process in play_wordle
    target_word,        \* play_wordle: target_word
    attempts,           \* play_wordle: attempts
    guesses,            \* play_wordle: guesses, the board rows
    keyboard_state,     \* play_wordle: keyboard_state, a dict letter -> coloured letter
    current_progress,   \* play_wordle: current_progress, a list of cells
    guess_word,         \* play_wordle: guess_word, the last line read
    stats_file,         \* stats.json on disk
    games,              \* history: runs of play_wordle that reached its end
    won                 \* history: those of them that ended on guess_word == target_word

vars == <<pc, target_word, attempts, guesses, keyboard_state, current_progress,
          guess_word, stats_file, games, won>>

----------------------------------------------------------------------------
(* Bounds of the model *)

\* number of runs of the program against the same stats.json
MaxGames == 2

\* length of the words of the evaluation harness (EvalSpec)
WordLen == 3

\* letters of the words of the evaluation harness
Alphabet == {"a", "b", "c"}

----------------------------------------------------------------------------
(* Colours and cells *)

Green == "42m"
Yellow == "43m"
Grey == "100m"
Black == "40m"

Paint(colour, letter) == <<colour, letter>>

\* no escape code around the character
Plain == ""

\* the cell "*" of ["*"] * len(target_word)
Placeholder == Paint(Plain, "*")

\* play_wordle: attempts = 6
InitialAttempts == 6

\* play_wordle: 7 - attempts
AttemptBase == 7

\* update_stats: if attempt < 7
LossAttempt == 7

\* the value of guess_word before the first input() returns
NoGuess == <<"<unbound>">>

\* the empty dict {}
EmptyDict == [c \in {} |-> Paint(Grey, c)]

Letters(word) == {word[i] : i \in 1..Len(word)}

----------------------------------------------------------------------------
(* The dictionary and the lines the player types *)

\* allowed_words.WORDS: a fixed set of valid five-letter words
WORDS ==
    { <<"a","l","l","o","t">>,
      <<"l","o","l","l","y">>,
      <<"a","l","o","f","t">> }

\* lines handed to input(): dictionary words, one with capitals and blanks
\* around it, a short word, a five-letter word outside the dictionary and
\* the empty line
RawInputs ==
    WORDS \cup
    { <<" ","L","o","l","l","y"," ">>,
      <<"l","o","t">>,
      <<"l","o","y","a","l">>,
      <<>> }

\* str.lower() on one character
LowerChar(ch) ==
    CASE ch = "A" -> "a"
      [] ch = "L" -> "l"
      [] ch = "O" -> "o"
      [] ch = "T" -> "t"
      [] ch = "Y" -> "y"
      [] OTHER -> ch

lower(s) == [i \in 1..Len(s) |-> LowerChar(s[i])]

RECURSIVE lstrip(_)
lstrip(s) == IF s # <<>> /\ Head(s) = " " THEN lstrip(Tail(s)) ELSE s

RECURSIVE rstrip(_)
rstrip(s) ==
    IF s # <<>> /\ s[Len(s)] = " " THEN rstrip(SubSeq(s, 1, Len(s) - 1)) ELSE s

strip(s) == rstrip(lstrip(s))

\* input("Enter your guess: ").lower().strip()
ReadLine(raw) == strip(lower(raw))

----------------------------------------------------------------------------
(* update_keyboard_state *)

\* first loop without its test: every letter of the guess becomes grey
AddUnseenOverwrite(ks, guess) ==
    [c \in (DOMAIN ks) \cup Letters(guess) |->
        IF c \in Letters(guess) THEN Paint(Grey, c) ELSE ks[c]]

\* first loop: a letter of the guess not yet in the dict becomes grey
AddUnseen(ks, guess) ==
    [c \in (DOMAIN ks) \cup Letters(guess) |->
        IF c \in DOMAIN ks THEN ks[c] ELSE Paint(Grey, c)]

\* second loop: a letter at its position in the target becomes green
RECURSIVE MarkGreen(_, _, _, _)
MarkGreen(ks, guess, target, i) ==
    IF i > Len(guess) THEN ks
    ELSE MarkGreen(IF guess[i] = target[i]
                   THEN [ks EXCEPT ![guess[i]] = Paint(Green, guess[i])]
                   ELSE ks,
                   guess, target, i + 1)

\* guess_word.count(letter)
count(guess, letter) == Cardinality({j \in 1..Len(guess) : guess[j] = letter})

\* sum(1 for j in range(len(target_word))
\*       if guess_word[j] == letter and target_word[j] == letter)
matched(guess, target, letter) ==
    Cardinality({j \in 1..Len(target) : guess[j] = letter /\ target[j] = letter})

\* the condition of the third loop, the green test dropped
YellowConditionNoGreenTest(ks, guess, target, letter) ==
    /\ letter \in Letters(target)
    /\ count(guess, letter) > matched(guess, target, letter)

\* the two conditions of the third loop
YellowCondition(ks, guess, target, letter) ==
    /\ letter \in Letters(target)
    /\ ks[letter] # Paint(Green, letter)
    /\ count(guess, letter) > matched(guess, target, letter)

\* third loop: a letter of the target that is not green becomes yellow
RECURSIVE MarkYellow(_, _, _, _)
MarkYellow(ks, guess, target, i) ==
    IF i > Len(guess) THEN ks
    ELSE MarkYellow(IF YellowCondition(ks, guess, target, guess[i])
                    THEN [ks EXCEPT ![guess[i]] = Paint(Yellow, guess[i])]
                    ELSE ks,
                    guess, target, i + 1)

\* the first and third loops merged into one if/elif, so that a letter new
\* to the dict is left grey by the call that adds it
RECURSIVE MarkYellowSeen(_, _, _, _, _)
MarkYellowSeen(seen, ks, guess, target, i) ==
    IF i > Len(guess) THEN ks
    ELSE MarkYellowSeen(seen,
                        IF guess[i] \in seen
                           /\ YellowCondition(ks, guess, target, guess[i])
                        THEN [ks EXCEPT ![guess[i]] = Paint(Yellow, guess[i])]
                        ELSE ks,
                        guess, target, i + 1)

update_keyboard_state_elif(ks, guess, target) ==
    MarkYellowSeen(DOMAIN ks,
                   MarkGreen(AddUnseen(ks, guess), guess, target, 1),
                   guess, target, 1)

update_keyboard_state(ks, guess, target) ==
    MarkYellow(MarkGreen(AddUnseen(ks, guess), guess, target, 1), guess, target, 1)

----------------------------------------------------------------------------
(* wordle_guess *)

\* the branches taken in the wrong order: membership before position
LetterResultMembershipFirst(target, guess, i) ==
    IF guess[i] \in Letters(target) THEN Paint(Yellow, guess[i])
    ELSE IF guess[i] = target[i] THEN Paint(Green, guess[i])
    ELSE Paint(Black, guess[i])

\* the three branches of the loop body, for position i
LetterResult(target, guess, i) ==
    IF guess[i] = target[i] THEN Paint(Green, guess[i])
    ELSE IF guess[i] \in Letters(target) THEN Paint(Yellow, guess[i])
    ELSE Paint(Black, guess[i])

\* the progress cell written for every letter of the target, placed or not
ProgressCellAnyMatch(target, guess, cell, i) ==
    IF guess[i] \in Letters(target) THEN Paint(Green, guess[i]) ELSE cell

\* current_progress[i] after the loop body for position i
ProgressCell(target, guess, cell, i) ==
    IF guess[i] = target[i] THEN Paint(Green, guess[i]) ELSE cell

\* the result row, the progress list and the keyboard dict after the call
wordle_guess(target, guess, ks, progress) ==
    [ result   |-> [i \in 1..Len(guess) |-> LetterResult(target, guess, i)],
      progress |-> [i \in 1..Len(progress) |->
                       IF i <= Len(guess)
                       THEN ProgressCell(target, guess, progress[i], i)
                       ELSE progress[i]],
      keyboard |-> update_keyboard_state(ks, guess, target) ]

----------------------------------------------------------------------------
(* The statistics file *)

\* str(i) for the attempt numbers
StrTable == <<"0", "1", "2", "3", "4", "5", "6", "7", "8">>

str(n) == StrTable[n + 1]

\* the keys of {str(i): 0 for i in range(1, 7)}
Buckets == {str(i) : i \in 1..(LossAttempt - 1)}

NoFile == [exists |-> FALSE]

File(stats) == [exists |-> TRUE, stats |-> stats]

\* json.dump({str(i): 0 for i in range(1, 7)}, f)
ZeroStats == [b \in Buckets |-> 0]

\* the increment applied to a loss as well, on the last bucket
IncrementedAlways(stats, attempt) ==
    IF attempt < LossAttempt
    THEN [stats EXCEPT ![str(attempt)] = @ + 1]
    ELSE [stats EXCEPT ![str(LossAttempt - 1)] = @ + 1]

\* update_stats: if attempt < 7: stats[str(attempt)] += 1
Incremented(stats, attempt) ==
    IF attempt < LossAttempt
    THEN [stats EXCEPT ![str(attempt)] = @ + 1]
    ELSE stats

\* display_score reads final_bar_length for a bucket whose count is the
\* largest; that name is unbound when no earlier bucket had a count above 0,
\* which is so exactly when every count is 0: UnboundLocalError
display_score_raises(stats) == \A b \in DOMAIN stats : stats[b] = 0

\* stats.json after update_stats(filename, attempt): the dict is written
\* back unless display_score raised, and then the file read is still there
update_stats(stats, attempt) ==
    IF display_score_raises(Incremented(stats, attempt))
    THEN stats
    ELSE Incremented(stats, attempt)

----------------------------------------------------------------------------
(* play_wordle *)

\* 8 - attempts
AttemptNumberOffByOne(a) == AttemptBase + 1 - a

\* 7 - attempts
AttemptNumber(a) == AttemptBase - a

\* while attempts >= 0
LoopConditionInclusive(a) == a >= 0

\* while attempts > 0
LoopCondition(a) == a > 0

\* the length test alone
InvalidGuessLengthOnly(guess, target) == Len(guess) # Len(target)

\* len(guess_word) != len(target_word) or guess_word not in WORDS
InvalidGuess(guess, target) == Len(guess) # Len(target) \/ guess \notin WORDS

\* a run of the program begins: the locals of play_wordle are set
Start ==
    /\ pc = "idle"
    /\ games < MaxGames
    /\ \E t \in WORDS :
          /\ target_word' = t
          /\ current_progress' = [i \in 1..Len(t) |-> Placeholder]
    /\ attempts' = InitialAttempts
    /\ guesses' = <<>>
    /\ keyboard_state' = EmptyDict
    /\ guess_word' = NoGuess
    /\ pc' = IF LoopCondition(InitialAttempts) THEN "prompt" ELSE "finished"
    /\ UNCHANGED <<stats_file, games, won>>

\* a line is read and refused: print and continue
Reject(raw) ==
    \E line \in {ReadLine(raw)} :
        /\ pc = "prompt"
        /\ InvalidGuess(line, target_word)
        /\ guess_word' = line
        /\ UNCHANGED <<pc, target_word, attempts, guesses, keyboard_state,
                       current_progress, stats_file, games, won>>

\* a line is read and accepted: wordle_guess and guesses.append
Evaluate(raw) ==
    \E line \in {ReadLine(raw)} :
        /\ pc = "prompt"
        /\ ~InvalidGuess(line, target_word)
        /\ guess_word' = line
        /\ \E r \in {wordle_guess(target_word, line, keyboard_state,
                                  current_progress)} :
              /\ guesses' = Append(guesses, r.result)
              /\ current_progress' = r.progress
              /\ keyboard_state' = r.keyboard
        /\ pc' = "evaluated"
        /\ UNCHANGED <<target_word, attempts, stats_file, games, won>>

\* the rest of the loop body: the second update_keyboard_state, the break
\* on a match, attempts -= 1 and the loop test
Advance ==
    /\ pc = "evaluated"
    /\ keyboard_state' = update_keyboard_state(keyboard_state, guess_word, target_word)
    /\ IF guess_word = target_word
       THEN /\ pc' = "finished"
            /\ UNCHANGED attempts
       ELSE /\ attempts' = attempts - 1
            /\ pc' = IF LoopCondition(attempts - 1) THEN "prompt" ELSE "finished"
    /\ UNCHANGED <<target_word, guesses, current_progress, guess_word,
                   stats_file, games, won>>

\* after the loop: stats.json is created if absent and updated, and the
\* process ends, which discards its locals
Finish ==
    /\ pc = "finished"
    /\ stats_file' =
          File(update_stats(IF stats_file.exists THEN stats_file.stats ELSE ZeroStats,
                            AttemptNumber(attempts)))
    /\ games' = games + 1
    /\ won' = IF guess_word = target_word THEN won + 1 ELSE won
    /\ pc' = "idle"
    /\ target_word' = NoGuess
    /\ attempts' = InitialAttempts
    /\ guesses' = <<>>
    /\ keyboard_state' = EmptyDict
    /\ current_progress' = <<>>
    /\ guess_word' = NoGuess

Init ==
    /\ pc = "idle"
    /\ target_word = NoGuess
    /\ attempts = InitialAttempts
    /\ guesses = <<>>
    /\ keyboard_state = EmptyDict
    /\ current_progress = <<>>
    /\ guess_word = NoGuess
    /\ stats_file = NoFile
    /\ games = 0
    /\ won = 0

Next ==
    \/ Start
    \/ \E raw \in RawInputs : Reject(raw)
    \/ \E raw \in RawInputs : Evaluate(raw)
    \/ Advance
    \/ Finish

Spec == Init /\ [][Next]_vars

\* the player enters a valid guess in the end whenever prompted, and the
\* program itself keeps running
FairSpec ==
    /\ Spec
    /\ WF_vars(\E raw \in RawInputs : Evaluate(raw))
    /\ WF_vars(Advance)
    /\ WF_vars(Finish)

----------------------------------------------------------------------------
(* The evaluation harness: wordle_guess called once on any target and guess *)
(* of WordLen letters over Alphabet, from any keyboard dict                 *)

EvalWords == [1..WordLen -> Alphabet]

PriorKeyboards ==
    UNION { { [c \in D |-> Paint(f[c], c)] : f \in [D -> {Grey, Yellow, Green}] }
            : D \in SUBSET Alphabet }

EvalInit ==
    /\ pc = "call"
    /\ target_word \in EvalWords
    /\ keyboard_state \in PriorKeyboards
    /\ current_progress = [i \in 1..WordLen |-> Placeholder]
    /\ attempts = InitialAttempts
    /\ guesses = <<>>
    /\ guess_word = NoGuess
    /\ stats_file = NoFile
    /\ games = 0
    /\ won = 0

EvalCall(guess) ==
    /\ pc = "call"
    /\ guess_word' = guess
    /\ \E r \in {wordle_guess(target_word, guess, keyboard_state, current_progress)} :
          /\ guesses' = Append(guesses, r.result)
          /\ current_progress' = r.progress
          /\ keyboard_state' = r.keyboard
    /\ pc' = "returned"
    /\ UNCHANGED <<target_word, attempts, stats_file, games, won>>

EvalNext == \E guess \in EvalWords : EvalCall(guess)

EvalSpec == EvalInit /\ [][EvalNext]_vars

----------------------------------------------------------------------------
(* Vocabulary of the properties *)

\* the letters of a board row
RowWord(row) == [i \in 1..Len(row) |-> row[i][2]]

\* the positions of a board row that are green or yellow and hold letter c
Coloured(row, c) ==
    {i \in 1..Len(row) : row[i][2] = c /\ row[i][1] \in {Green, Yellow}}

InGame == pc \in {"prompt", "evaluated", "finished"}

\* Correct > Present > Absent > unseen, on the cells of the keyboard dict
Rank(ks, c) ==
    IF c \notin DOMAIN ks THEN 0
    ELSE IF ks[c][1] = Grey THEN 1
    ELSE IF ks[c][1] = Yellow THEN 2
    ELSE 3

\* the two-pass feedback of the specification: position i of the guess is
\* Correct when it holds the target's letter; otherwise it is Present when
\* the target holds more of its letter than the Correct positions and the
\* Present positions to its left have consumed, and Absent if not
RECURSIVE TwoPass(_, _, _)
TwoPass(target, guess, fb) ==
    IF Len(fb) = Len(guess) THEN fb
    ELSE LET i == Len(fb) + 1
             c == guess[i]
             consumed ==
                 Cardinality({j \in 1..Len(guess) : guess[j] = c /\ target[j] = c})
                 + Cardinality({j \in 1..Len(fb) : guess[j] = c /\ fb[j] = "Present"})
         IN  TwoPass(target, guess,
                     Append(fb, IF guess[i] = target[i] THEN "Correct"
                                ELSE IF count(target, c) > consumed THEN "Present"
                                ELSE "Absent"))

\* the best feedback of letter c in the guess, as a rank
BestRank(target, guess, c) ==
    LET fb == TwoPass(target, guess, <<>>)
    IN  IF \E i \in 1..Len(guess) : guess[i] = c /\ guess[i] = target[i] THEN 3
        ELSE IF \E i \in 1..Len(guess) : guess[i] = c /\ fb[i] = "Present" THEN 2
        ELSE 1

Max(a, b) == IF a >= b THEN a ELSE b

\* the counts of the histogram, all buckets together
RECURSIVE SumOver(_, _)
SumOver(stats, keys) ==
    IF keys = {} THEN 0
    ELSE LET k == CHOOSE x \in keys : TRUE
         IN  stats[k] + SumOver(stats, keys \ {k})

Histogram == IF stats_file.exists THEN stats_file.stats ELSE ZeroStats

HistogramSum == SumOver(Histogram, DOMAIN Histogram)

LastRow == guesses[Len(guesses)]

----------------------------------------------------------------------------
(* C1 *)

\* C1: in every row wordle_guess returns, the positions that are green or
\* yellow and hold a letter c are no more than the occurrences of c in the
\* target (the duplicate-letter rule).
C1_DuplicateRule ==
    \A r \in 1..Len(guesses) :
        \A c \in Letters(RowWord(guesses[r])) :
            Cardinality(Coloured(guesses[r], c)) <= count(target_word, c)

----------------------------------------------------------------------------
(* C4 *)

\* C4: a guess equal to the target gets a row that is green at every
\* position.
C4_ExactMatchAllCorrect ==
    \A r \in 1..Len(guesses) :
        RowWord(guesses[r]) = target_word
            => \A i \in 1..Len(target_word) :
                   guesses[r][i] = Paint(Green, target_word[i])

C4_Witness ==
    /\ pc = "returned"
    /\ guess_word = target_word
    /\ Cardinality(Letters(target_word)) > 1
    /\ Len(guesses) = 1

----------------------------------------------------------------------------
(* C9 *)

----------------------------------------------------------------------------
(* C2 *)

C2_SumIsWins ==
    /\ HistogramSum = won
    /\ won <= games

----------------------------------------------------------------------------
(* C3 *)

\* C3: during a game no step lowers the rank of a letter in the keyboard
\* dict: green stays green, yellow never becomes grey, no letter leaves.
C3_KeyboardNeverDowngrades ==
    [][InGame /\ pc' # "idle" =>
          \A c \in DOMAIN keyboard_state :
              Rank(keyboard_state', c) >= Rank(keyboard_state, c)]_vars

\* a letter is green on the keyboard and the last guess held it only at
\* positions where the target has another letter
C3_Witness ==
    /\ pc = "prompt"
    /\ Len(guesses) > 1
    /\ \E c \in Letters(RowWord(LastRow)) :
          /\ keyboard_state[c] = Paint(Green, c)
          /\ \A i \in 1..Len(LastRow) : LastRow[i][2] = c => LastRow[i][1] = Yellow

----------------------------------------------------------------------------
(* C5 *)

\* C5: a line of the wrong length or outside the dictionary is refused and
\* the prompt comes again: attempts, the board rows, the keyboard dict and
\* the progress list are unchanged.
C5_InvalidGuessChangesNothing ==
    [][(pc = "prompt"
        /\ (Len(guess_word') # Len(target_word) \/ guess_word' \notin WORDS))
       => /\ pc' = "prompt"
          /\ UNCHANGED <<attempts, guesses, keyboard_state, current_progress>>]_vars

\* a five-letter line outside the dictionary was refused in mid-game
C5_Witness ==
    /\ pc = "prompt"
    /\ Len(guess_word) = Len(target_word)
    /\ guess_word \notin WORDS
    /\ Len(guesses) = 2
    /\ attempts = InitialAttempts - 2

----------------------------------------------------------------------------
(* C6 *)

C6_ProgressShowsSolved ==
    InGame =>
       /\ Len(current_progress) = Len(target_word)
       /\ \A i \in 1..Len(target_word) :
             current_progress[i] =
                 IF \E r \in 1..Len(guesses) : guesses[r][i][2] = target_word[i]
                 THEN Paint(Green, target_word[i])
                 ELSE Placeholder

\* C6: position i of the progress list shows the target's letter exactly
\* when some guess so far held that letter at i, the placeholder otherwise,
\* and a position shown never goes back to the placeholder.
C6_ProgressTracksCorrectPositions ==
    /\ []C6_ProgressShowsSolved
    /\ [][InGame /\ pc' # "idle" =>
             \A i \in 1..Len(current_progress) :
                 current_progress[i] # Placeholder
                     => current_progress'[i] = current_progress[i]]_vars

\* two guesses, the second yellow at a position the first solved, and a
\* position that is still the placeholder
C6_Witness ==
    /\ pc = "prompt"
    /\ Len(guesses) = 2
    /\ \E i \in 1..Len(target_word) :
          /\ guesses[1][i][1] = Green
          /\ guesses[2][i][1] = Yellow
          /\ current_progress[i] = Paint(Green, target_word[i])
    /\ \E i \in 1..Len(target_word) : current_progress[i] = Placeholder

----------------------------------------------------------------------------
(* C7 *)

NoWinBefore(n) == \A r \in 1..n : RowWord(guesses[r]) # target_word

C7_StopsOnWinOrExhaustion ==
    /\ Len(guesses) <= InitialAttempts
    /\ pc = "prompt" =>
          Len(guesses) < InitialAttempts /\ NoWinBefore(Len(guesses))
    /\ pc = "evaluated" => NoWinBefore(Len(guesses) - 1)
    /\ pc = "finished" =>
          /\ NoWinBefore(Len(guesses) - 1)
          /\ RowWord(LastRow) = target_word \/ Len(guesses) = InitialAttempts

\* C7: with a player who enters a valid guess in the end, a game that is
\* prompting ends; it ends right after the first evaluated guess equal to
\* the target and otherwise after 6 evaluated guesses, and there is no
\* prompt and no evaluation after either.
C7_GameTerminates ==
    /\ []C7_StopsOnWinOrExhaustion
    /\ [][(pc = "evaluated"
           /\ (RowWord(LastRow) = target_word \/ Len(guesses) = InitialAttempts))
          => pc' = "finished"]_vars
    /\ [][pc = "finished" => pc' = "idle"]_vars
    /\ (pc = "prompt") ~> (pc = "finished")

\* a game lost by exhaustion
C7_Witness ==
    /\ pc = "finished"
    /\ Len(guesses) = InitialAttempts
    /\ RowWord(LastRow) # target_word
    /\ attempts = 0

----------------------------------------------------------------------------
(* C8 *)

\* C8: the statistics update of a game won on its k-th evaluated guess adds
\* 1 to the bucket keyed k and leaves every other bucket as it was.
C8_WinIncrementsBucketK ==
    [][(pc = "finished" /\ RowWord(LastRow) = target_word) =>
          /\ Len(guesses) \in 1..InitialAttempts
          /\ stats_file'.exists
          /\ stats_file'.stats =
                 [b \in Buckets |->
                     IF b = str(Len(guesses)) THEN Histogram[b] + 1
                     ELSE Histogram[b]]]_vars

\* a win on the third guess recorded after a win on the first
C8_Witness ==
    /\ pc = "idle"
    /\ stats_file.exists
    /\ games = 2
    /\ stats_file.stats = [b \in Buckets |-> IF b \in {"1", "3"} THEN 1 ELSE 0]

----------------------------------------------------------------------------
(* C10 *)

\* C10: the second update_keyboard_state of an iteration changes nothing,
\* and evaluating once more the guess just evaluated leaves the progress
\* list and the keyboard dict as they were.
C10_RepeatedGuessIdempotent ==
    [][/\ pc = "evaluated" =>
             UNCHANGED <<keyboard_state, current_progress>>
       /\ (pc = "prompt" /\ pc' = "evaluated" /\ Len(guesses) > 0
           /\ guess_word' = RowWord(LastRow))
          => UNCHANGED <<keyboard_state, current_progress>>]_vars

\* the same guess evaluated twice in a row, with a yellow key and a solved
\* position to keep
C10_Witness ==
    /\ pc = "prompt"
    /\ Len(guesses) = 2
    /\ guesses[1] = guesses[2]
    /\ \E c \in DOMAIN keyboard_state : keyboard_state[c][1] = Yellow
    /\ \E i \in 1..Len(current_progress) : current_progress[i] # Placeholder

====
